---- MODULE Spec2Model ----
(***************************************************************************)
(* The map_requests repository (app/repositories/map_requests.py): the     *)
(* table, the statements each handler hands to the database handle, and    *)
(* each handler's position between its awaited store calls.                *)
(***************************************************************************)
EXTENDS Integers, Sequences, FiniteSets, TLC

VARIABLES
    table,    \* the rows of map_requests
    nextId,   \* the table's auto_increment counter
    clock,    \* the store's NOW()
    pc,       \* per caller: "idle", "create_select", "update_select", "delete_exec", "done"
    op,       \* per caller: the call in progress and its arguments
    local,    \* per caller: the handler's local variables (rec_id, rec, map_request)
    result,   \* per caller: what the call returned or raised
    stmts,    \* per caller: the statements the call has handed to the database handle
    pre,      \* history: the table and the ids issued when the call started (one call at a time)
    issued,   \* history: every id the store has ever assigned
    clients,  \* the callers that make calls
    rt        \* history: progress of a create / fetch_one / delete / fetch_one round trip

vars == <<table, nextId, clock, pc, op, local, result, stmts, pre, issued, clients, rt>>

----------------------------------------------------------------------------
(* Bounds *)

\* the ids the auto_increment counter hands out before the model stops inserting
MaxId == 2
\* the last value of the store's clock
MaxClock == 1

Callers == {"a", "b"}
Ids == 1..MaxId
\* the values callers pass for map_id, player_id and active
MapIds == {1, 2}
PlayerIds == {1, 2}
Tiny == {0, 1}

----------------------------------------------------------------------------
(* Python values *)

None == [isNone |-> TRUE]
Some(v) == [isNone |-> FALSE, v |-> v]
Opt(S) == {None} \cup {Some(v) : v \in S}

UNSET == [isUnset |-> TRUE]
Given(v) == [isUnset |-> FALSE, v |-> v]
OrUnset(S) == {UNSET} \cup {Given(v) : v \in S}

\* a bool bound to the tinyint(1) column
TinyInt(b) == IF b THEN 1 ELSE 0

Range(s) == {s[i] : i \in DOMAIN s}

\* the map_ids lists callers pass to update
MapIdLists ==
    {<<m>> : m \in MapIds} \cup
    {<<p[1], p[2]>> : p \in {q \in MapIds \X MapIds : q[1] < q[2]}}

----------------------------------------------------------------------------
(* Values of the handlers and of the database handle *)

NoneResult == [kind |-> "none"]
RowResult(r) == [kind |-> "row", row |-> r]
RowsResult(S) == [kind |-> "rows", rows |-> S]
IntResult(n) == [kind |-> "int", n |-> n]
Raised(e) == [kind |-> "error", err |-> e]

NoCall == [name |-> "none"]
NoLocal == [unset |-> TRUE]
NoPre == [unset |-> TRUE]

\* cast(MapRequest, dict(x._mapping)): only a row has a _mapping
MappingOf(x) == IF x.kind = "row" THEN RowResult(x.row) ELSE Raised("AttributeError")

----------------------------------------------------------------------------
(* The statements of the handlers: the verb, the columns of the SET list,  *)
(* the named placeholders of the text and the keys of the params dict.     *)

Stmt(verb, set, binds, keys) == [verb |-> verb, set |-> set, binds |-> binds, keys |-> keys]

InsertStmt ==
    Stmt("INSERT", {}, {"map_id", "player_id", "active"}, {"map_id", "player_id", "active"})

SelectByIdStmt == Stmt("SELECT", {}, {"id"}, {"id"})

FetchOneStmt ==
    Stmt("SELECT", {}, {"id", "map_id", "player_id", "active"},
         {"id", "map_id", "player_id", "active"})

FetchAllStmt ==
    Stmt("SELECT", {}, {"map_id", "player_id", "active"}, {"map_id", "player_id", "active"})

UpdateStmt(update_fields) ==
    Stmt("UPDATE", DOMAIN update_fields,
         {"map_ids"} \cup DOMAIN update_fields,
         {"map_id"} \cup DOMAIN update_fields)

UpdateSelectStmt == Stmt("SELECT", {}, {"map_ids"}, {"map_ids"})

DeleteStmt == Stmt("DELETE", {}, {"id"}, {"id"})

----------------------------------------------------------------------------
(* The store *)

\* the handle runs a statement only if every placeholder is bound and the
\* text parses (an UPDATE needs at least one assignment)
StoreAccepts(stmt) ==
    /\ stmt.binds \subseteq stmt.keys
    /\ stmt.verb = "UPDATE" => stmt.set # {}

\* COALESCE(:p, col)
Coalesce(p, col) == IF p.isNone THEN col ELSE p.v

NewRow(id, map_id, player_id, datetime, active) ==
    [id |-> id, map_id |-> map_id, player_id |-> player_id,
     datetime |-> datetime, active |-> active]

\* WHERE id = :id
RowsById(tbl, id) == {r \in tbl : r.id = id}

\* fetch_one of the handle: a row of the result in store-determined order
HandleFetchOne(rows) ==
    IF rows = {} THEN {NoneResult} ELSE {RowResult(r) : r \in rows}

----------------------------------------------------------------------------
(* History: a round trip is create, fetch_one(id=r.id), delete(r.id),      *)
(* fetch_one(id=r.id), consecutive calls with no other call between or     *)
(* during them.                                                            *)

NoTrip == [stage |-> 0]

Quiet(c) == \A d \in Callers \ {c} : pc[d] = "idle"

IsFetchOfId(o, id) ==
    /\ o.name = "fetch_one"
    /\ o.id = Some(id)
    /\ o.map_id = None /\ o.player_id = None /\ o.active = None

Observe(c, o, res) ==
    IF ~Quiet(c) THEN NoTrip
    ELSE IF o.name = "create"
    THEN IF res.kind = "row" THEN [stage |-> 1, r |-> res.row, res |-> res] ELSE NoTrip
    ELSE IF rt.stage = 1 /\ IsFetchOfId(o, rt.r.id) THEN [stage |-> 2, r |-> rt.r, res |-> res]
    ELSE IF rt.stage = 2 /\ o.name = "delete" /\ o.id = rt.r.id
    THEN [stage |-> 3, r |-> rt.r, res |-> res]
    ELSE IF rt.stage = 3 /\ IsFetchOfId(o, rt.r.id) THEN [stage |-> 4, r |-> rt.r, res |-> res]
    ELSE NoTrip

----------------------------------------------------------------------------
(* Steps shared by the handlers *)

\* the caller is free to call, and the call remembers the table it started from
Begin(c) ==
    /\ c \in clients
    /\ pc[c] = "idle"
    /\ pre' = [pre EXCEPT ![c] = IF clients = {c} THEN [table |-> table, issued |-> issued]
                                 ELSE NoPre]
    /\ UNCHANGED clients

\* the call returns res or raises it
Complete(c, o, res, sent, loc) ==
    /\ pc' = [pc EXCEPT ![c] = "done"]
    /\ op' = [op EXCEPT ![c] = o]
    /\ result' = [result EXCEPT ![c] = res]
    /\ stmts' = [stmts EXCEPT ![c] = sent]
    /\ local' = [local EXCEPT ![c] = loc]
    /\ rt' = Observe(c, o, res)

\* the call is suspended between two statements
Suspend(c, label, o, sent, loc) ==
    /\ pc' = [pc EXCEPT ![c] = label]
    /\ op' = [op EXCEPT ![c] = o]
    /\ stmts' = [stmts EXCEPT ![c] = sent]
    /\ local' = [local EXCEPT ![c] = loc]
    /\ rt' = IF Quiet(c) THEN rt ELSE NoTrip
    /\ UNCHANGED result

\* the handle raises and the handler lets it propagate
Rejected(c, o, sent) == Complete(c, o, Raised("StoreError"), sent, local[c])

----------------------------------------------------------------------------
(* create *)

\* the bug of binding the two ids to each other's column
CreateParamsSwapped(map_id, player_id, active) ==
    [map_id |-> player_id, player_id |-> map_id, active |-> TinyInt(active)]

CreateParams(map_id, player_id, active) ==
    [map_id |-> map_id, player_id |-> player_id, active |-> TinyInt(active)]

\* NOW() does not go backwards
NowValues == {t \in clock..MaxClock : t <= clock + 1}

\* assert map_request is not None; return cast(MapRequest, dict(map_request._mapping))
CreateReturn(map_request) ==
    IF map_request.kind = "none" THEN Raised("AssertionError") ELSE MappingOf(map_request)

CreateInsert(c, map_id, player_id, active) ==
    /\ nextId <= MaxId
    /\ Begin(c)
    /\ LET params == CreateParams(map_id, player_id, active)
           o == [name |-> "create", map_id |-> map_id, player_id |-> player_id,
                 active |-> active]
       IN  IF ~StoreAccepts(InsertStmt)
           THEN /\ Rejected(c, o, <<InsertStmt>>)
                /\ UNCHANGED <<table, nextId, clock, issued>>
           ELSE \E now \in NowValues :
                  /\ clock' = now
                  /\ table' = table \cup
                        {NewRow(nextId, params.map_id, params.player_id, now, params.active)}
                  /\ nextId' = nextId + 1
                  /\ issued' = issued \cup {nextId}
                  /\ Suspend(c, "create_select", o, <<InsertStmt>>, [rec_id |-> nextId])

----------------------------------------------------------------------------
(* fetch_one *)

\* the bug of testing the filters for truth ("not active") instead of "is None"
Falsy(p) == p.isNone \/ p.v = 0

NoFiltersTruthy(id, map_id, player_id, active) ==
    Falsy(id) /\ Falsy(map_id) /\ Falsy(player_id) /\ Falsy(active)

NoFilters(id, map_id, player_id, active) ==
    id.isNone /\ map_id.isNone /\ player_id.isNone /\ active.isNone

FetchOneWhere(r, id, map_id, player_id, active) ==
    /\ r.id = Coalesce(id, r.id)
    /\ r.map_id = Coalesce(map_id, r.map_id)
    /\ r.player_id = Coalesce(player_id, r.player_id)
    /\ r.active = Coalesce(active, r.active)

FetchOneReturn(map_request) ==
    IF map_request.kind = "none" THEN NoneResult ELSE MappingOf(map_request)

FetchOne(c, id, map_id, player_id, active) ==
    /\ Begin(c)
    /\ LET o == [name |-> "fetch_one", id |-> id, map_id |-> map_id,
                 player_id |-> player_id, active |-> active]
       IN  IF NoFilters(id, map_id, player_id, active)
           THEN Complete(c, o, Raised("ValueError"), <<>>, NoLocal)
           ELSE IF ~StoreAccepts(FetchOneStmt)
           THEN Rejected(c, o, <<FetchOneStmt>>)
           ELSE \E map_request \in HandleFetchOne(
                        {r \in table : FetchOneWhere(r, id, map_id, player_id, active)}) :
                  Complete(c, o, FetchOneReturn(map_request), <<FetchOneStmt>>, NoLocal)
    /\ UNCHANGED <<table, nextId, clock, issued>>

----------------------------------------------------------------------------
(* fetch_all *)

\* the bug of comparing active with the parameter itself: NULL matches no row
FetchAllWhereNullCompare(r, map_id, player_id, active) ==
    /\ r.map_id = Coalesce(map_id, r.map_id)
    /\ r.player_id = Coalesce(player_id, r.player_id)
    /\ ~active.isNone /\ r.active = active.v

FetchAllWhere(r, map_id, player_id, active) ==
    /\ r.map_id = Coalesce(map_id, r.map_id)
    /\ r.player_id = Coalesce(player_id, r.player_id)
    /\ r.active = Coalesce(active, r.active)

\* the list is in store-determined order; its rows are kept as a set
FetchAll(c, map_id, player_id, active) ==
    /\ Begin(c)
    /\ LET o == [name |-> "fetch_all", map_id |-> map_id, player_id |-> player_id,
                 active |-> active]
       IN  IF ~StoreAccepts(FetchAllStmt)
           THEN Rejected(c, o, <<FetchAllStmt>>)
           ELSE Complete(c, o,
                    RowsResult({r \in table : FetchAllWhere(r, map_id, player_id, active)}),
                    <<FetchAllStmt>>, NoLocal)
    /\ UNCHANGED <<table, nextId, clock, issued>>

----------------------------------------------------------------------------
(* update *)

UpdateFields(player_id, active) ==
    [k \in {f \in {"player_id", "active"} :
                IF f = "player_id" THEN ~player_id.isUnset ELSE ~active.isUnset}
        |-> IF k = "player_id" THEN player_id.v ELSE TinyInt(active.v)]

\* WHERE map_id IN :map_ids
RowsByMapIds(tbl, map_ids) == {r \in tbl : r.map_id \in Range(map_ids)}

\* SET k = COALESCE(:k, k) for every k of update_fields
ApplyUpdate(tbl, map_ids, update_fields) ==
    {IF r.map_id \in Range(map_ids)
       THEN [r EXCEPT
               !.player_id = IF "player_id" \in DOMAIN update_fields
                               THEN Coalesce(Some(update_fields["player_id"]), @) ELSE @,
               !.active = IF "active" \in DOMAIN update_fields
                               THEN Coalesce(Some(update_fields["active"]), @) ELSE @]
       ELSE r : r \in tbl}

UpdateReturn(map_request) ==
    IF map_request.kind = "none" THEN NoneResult ELSE MappingOf(map_request)

Update(c, map_ids, player_id, active) ==
    /\ Begin(c)
    /\ LET update_fields == UpdateFields(player_id, active)
           stmt == UpdateStmt(update_fields)
           o == [name |-> "update", map_ids |-> map_ids, player_id |-> player_id,
                 active |-> active]
       IN  IF ~StoreAccepts(stmt)
           THEN /\ Rejected(c, o, <<stmt>>)
                /\ UNCHANGED table
           ELSE /\ table' = ApplyUpdate(table, map_ids, update_fields)
                /\ Suspend(c, "update_select", o, <<stmt>>, NoLocal)
    /\ UNCHANGED <<nextId, clock, issued>>

----------------------------------------------------------------------------
(* The second statement of create and of update: a database.fetch_one      *)
(* whose row, if any, is returned.                                         *)

SelectStep(c) ==
    /\ pc[c] \in {"create_select", "update_select"}
    /\ LET creating == pc[c] = "create_select"
           stmt == IF creating THEN SelectByIdStmt ELSE UpdateSelectStmt
           rows == IF creating THEN RowsById(table, local[c].rec_id)
                   ELSE RowsByMapIds(table, op[c].map_ids)
           sent == Append(stmts[c], stmt)
       IN  IF ~StoreAccepts(stmt)
           THEN Rejected(c, op[c], sent)
           ELSE \E map_request \in HandleFetchOne(rows) :
                  Complete(c, op[c],
                           IF creating THEN CreateReturn(map_request)
                           ELSE UpdateReturn(map_request),
                           sent, local[c])
    /\ UNCHANGED <<table, nextId, clock, issued, pre, clients>>

----------------------------------------------------------------------------
(* delete *)

\* the bug of leaving the early return out
DeleteGuardMissing(rec) == FALSE

\* if rec is None: return None
DeleteGuard(rec) == rec.kind = "none"

DeleteReturn(map_request) ==
    IF map_request.kind = "none" THEN NoneResult ELSE MappingOf(map_request)

DeleteSelect(c, id) ==
    /\ Begin(c)
    /\ LET o == [name |-> "delete", id |-> id]
       IN  IF ~StoreAccepts(SelectByIdStmt)
           THEN Rejected(c, o, <<SelectByIdStmt>>)
           ELSE \E rec \in HandleFetchOne(RowsById(table, id)) :
                  IF DeleteGuard(rec)
                  THEN Complete(c, o, NoneResult, <<SelectByIdStmt>>, [rec |-> rec])
                  ELSE /\ Suspend(c, "delete_exec", o, <<SelectByIdStmt>>, [rec |-> rec])
    /\ UNCHANGED <<table, nextId, clock, issued>>

\* execute returns the number of rows the DELETE affected
DeleteExec(c) ==
    /\ pc[c] = "delete_exec"
    /\ LET sent == Append(stmts[c], DeleteStmt)
           gone == RowsById(table, op[c].id)
           map_request == IntResult(Cardinality(gone))
       IN  IF ~StoreAccepts(DeleteStmt)
           THEN /\ Rejected(c, op[c], sent)
                /\ UNCHANGED table
           ELSE /\ table' = table \ gone
                /\ Complete(c, op[c], DeleteReturn(map_request), sent,
                            [rec |-> local[c].rec, map_request |-> map_request])
    /\ UNCHANGED <<nextId, clock, issued, pre, clients>>

----------------------------------------------------------------------------
(* The caller takes the outcome and is free to call again *)

Return(c) ==
    /\ pc[c] = "done"
    /\ pc' = [pc EXCEPT ![c] = "idle"]
    /\ op' = [op EXCEPT ![c] = NoCall]
    /\ local' = [local EXCEPT ![c] = NoLocal]
    /\ result' = [result EXCEPT ![c] = NoneResult]
    /\ stmts' = [stmts EXCEPT ![c] = <<>>]
    /\ pre' = [pre EXCEPT ![c] = NoPre]
    /\ UNCHANGED <<table, nextId, clock, issued, clients, rt>>

----------------------------------------------------------------------------
(* Specifications *)

Start ==
    /\ table = {}
    /\ nextId = 1
    /\ clock = 0
    /\ pc = [c \in Callers |-> "idle"]
    /\ op = [c \in Callers |-> NoCall]
    /\ local = [c \in Callers |-> NoLocal]
    /\ result = [c \in Callers |-> NoneResult]
    /\ stmts = [c \in Callers |-> <<>>]
    /\ pre = [c \in Callers |-> NoPre]
    /\ issued = {}
    /\ rt = NoTrip

\* the calls that write the table, one disjunct per step
Writes ==
    \/ \E c \in Callers, map_id \in MapIds, player_id \in PlayerIds, active \in BOOLEAN :
         CreateInsert(c, map_id, player_id, active)
    \/ \E c \in Callers, map_ids \in MapIdLists, player_id \in OrUnset(PlayerIds),
          active \in OrUnset(BOOLEAN) :
         Update(c, map_ids, player_id, active)
    \/ \E c \in Callers : SelectStep(c)
    \/ \E c \in Callers, id \in Ids : DeleteSelect(c, id)
    \/ \E c \in Callers : DeleteExec(c)
    \/ \E c \in Callers : Return(c)

\* the calls that only read it: one statement each
Reads ==
    \/ \E c \in Callers, id \in Opt(Ids), map_id \in Opt(MapIds),
          player_id \in Opt(PlayerIds), active \in Opt(Tiny) :
         FetchOne(c, id, map_id, player_id, active)
    \/ \E c \in Callers, map_id \in Opt(MapIds), player_id \in Opt(PlayerIds),
          active \in Opt(Tiny) :
         FetchAll(c, map_id, player_id, active)

Next == Writes \/ Reads

\* one caller, one call at a time: every call returns before the next one starts
Init == Start /\ clients = {"a"}

Spec == Init /\ [][Next]_vars

\* Callers interleave at every await.  A read is a single statement that
\* leaves the table alone, so it cannot come between the two statements of
\* another call to any effect: the interleavings are those of the writes.
InitConc == Start /\ clients = Callers

NextConc == Writes

SpecConc == InitConc /\ [][NextConc]_vars

----------------------------------------------------------------------------
(* Properties                                                              *)

Done(c, name) == pc[c] = "done" /\ op[c].name = name

IdsOf(tbl) == {r.id : r \in tbl}

Sent(c, verb) == {i \in DOMAIN stmts[c] : stmts[c][i].verb = verb}

\* C1: delete(id) of an id that is in the table removes exactly that row,
\* leaves every other row as it was, and returns the row as it was read
\* before the DELETE.
C1_DeleteReturnsSnapshot ==
    \A c \in Callers :
        Done(c, "delete") =>
            \A r \in pre[c].table :
                r.id = op[c].id =>
                    /\ table = pre[c].table \ {r}
                    /\ result[c] = RowResult(r)

\* C2: with no other call between them, create, fetch_one(id=r.id) and
\* delete(r.id) return the created record r three times, and fetch_one(id=r.id)
\* then returns absent.
C2_RoundTrip ==
    /\ rt.stage \in {1, 2, 3} => rt.res = RowResult(rt.r)
    /\ rt.stage = 4 => rt.res = NoneResult

\* C3: update([m1, m2], active=True) with player_id unset ends without a store
\* error, sets active on every row whose map_id is m1 or m2, keeps their
\* player_id, and leaves every other row as it was.
C3_UpdateSetsActive ==
    \A c \in Callers :
        Done(c, "update") /\ op[c].player_id = UNSET /\ op[c].active = Given(TRUE) =>
            /\ result[c].kind # "error"
            /\ table = {IF r.map_id \in Range(op[c].map_ids)
                          THEN [r EXCEPT !.active = 1] ELSE r : r \in pre[c].table}

AllAbsent(o) ==
    o.id = None /\ o.map_id = None /\ o.player_id = None /\ o.active = None

\* C4: fetch_one with all four filters absent raises ValueError before any
\* statement is sent and leaves the table as it was; with at least one filter
\* given it never raises ValueError.
C4_FetchOneGuard ==
    \A c \in Callers :
        Done(c, "fetch_one") =>
            IF AllAbsent(op[c])
            THEN /\ result[c] = Raised("ValueError")
                 /\ stmts[c] = <<>>
                 /\ table = pre[c].table
            ELSE result[c] # Raised("ValueError")

C4_Witness ==
    \E c \in Callers :
        /\ Done(c, "fetch_one") /\ AllAbsent(op[c])
        /\ table # {}

\* C5: after any sequence of earlier calls, create adds exactly one row and
\* returns it: its map_id, player_id and active are the inputs, and its id was
\* never assigned before, not even to a row deleted since.
C5_CreateAddsFreshRow ==
    \A c \in Callers :
        Done(c, "create") =>
            /\ result[c].kind = "row"
            /\ result[c].row.map_id = op[c].map_id
            /\ result[c].row.player_id = op[c].player_id
            /\ result[c].row.active = TinyInt(op[c].active)
            /\ result[c].row.id \notin pre[c].issued
            /\ result[c].row.id \notin IdsOf(pre[c].table)
            /\ result[c].row \notin pre[c].table
            /\ table = pre[c].table \cup {result[c].row}

C5_Witness ==
    \E c \in Callers :
        /\ Done(c, "create") /\ result[c].kind = "row"
        /\ pre[c].issued \ IdsOf(pre[c].table) # {}

\* C6: delete(id) of an id that is not in the table returns None, sends no
\* DELETE and leaves the table as it was.
C6_DeleteAbsent ==
    \A c \in Callers :
        Done(c, "delete") /\ op[c].id \notin IdsOf(pre[c].table) =>
            /\ result[c] = NoneResult
            /\ Sent(c, "DELETE") = {}
            /\ table = pre[c].table

C6_Witness ==
    \E c \in Callers :
        /\ Done(c, "delete") /\ op[c].id \notin IdsOf(pre[c].table)
        /\ op[c].id \in pre[c].issued
        /\ table # {}

\* C7: fetch_all(map_id=X) with player_id and active omitted returns exactly
\* the rows whose map_id is X, whatever their player_id and active, and leaves
\* the table as it was.
C7_FetchAllByMapId ==
    \A c \in Callers :
        Done(c, "fetch_all") /\ op[c].map_id # None /\ op[c].player_id = None
                             /\ op[c].active = None =>
            /\ result[c] = RowsResult({r \in pre[c].table : r.map_id = op[c].map_id.v})
            /\ table = pre[c].table

C7_Witness ==
    \E c \in Callers :
        /\ Done(c, "fetch_all") /\ op[c].map_id # None /\ op[c].player_id = None
                                /\ op[c].active = None
        /\ result[c].kind = "rows"
        /\ \E r1 \in result[c].rows, r2 \in result[c].rows :
              r1.player_id # r2.player_id /\ r1.active # r2.active

\* C8: update(map_ids) with player_id and active both unset either raises
\* ValueError or does nothing; it sends no UPDATE with an empty SET list and
\* leaves every row as it was.
C8_ZeroColumnUpdateGuarded ==
    \A c \in Callers :
        Done(c, "update") /\ op[c].player_id = UNSET /\ op[c].active = UNSET =>
            /\ result[c] = Raised("ValueError") \/ result[c].kind # "error"
            /\ \A i \in Sent(c, "UPDATE") : stmts[c][i].set # {}
            /\ table = pre[c].table

\* C9: a delete whose own DELETE found the row already gone (another delete
\* of the same id ran between its read and its DELETE) still returns the row
\* it read.
C9_LateDeleteReturnsSnapshot ==
    \A c \in Callers :
        Done(c, "delete") /\ local[c].rec.kind = "row" =>
            (local[c].map_request.n = 0 => result[c] = RowResult(local[c].rec.row))

\* C10: create's assertion that the re-read row is not None never fails, also
\* when other callers' deletes and updates run between its INSERT and its
\* SELECT.
C10_CreateAssertHolds ==
    \A c \in Callers :
        Done(c, "create") => result[c] # Raised("AssertionError")

====
